---- MODULE Spec2Model ----
(***************************************************************************)
(* Model of src/scientific_library/tvb/simulator/models/fast_montbrio.py:  *)
(* the delayed-coupling ring-buffer integrator (make_loop.loop), the       *)
(* hemodynamic updater (fmri) and the outer driver (run_loop).            *)
(*                                                                         *)
(* float32 values are held on a bounded integer grid: F32 rounds a result  *)
(* to the grid and saturates it at +-MaxVal (the analogue of rounding and  *)
(* of overflow towards +-inf).  Indices, loop structure, buffer reuse,     *)
(* the clamp and the order of reads and writes are those of the code.      *)
(* The temporal-average buffer is held in units of 1/nh so that the        *)
(* weight o_nh = nto/nh of one contribution is the integer nto.            *)
(***************************************************************************)
EXTENDS Integers, Sequences, FiniteSets, TLC

VARIABLES
    pc,          \* position of run_loop: "call","draw","loop","record","done","failed"
    err,         \* the exception that ended run_loop ("" when none)
    args,        \* the arguments of the invocation
    nn,          \* weights.shape[0]
    d,           \* discretized delays (delays / dt).astype(uint32)
    r, V,        \* history ring buffers, [slot][node]
    wrV,         \* noise buffer [var][slot][node]
    rng,         \* position of the seeded generator in its stream
    tavg,        \* temporal-average buffer [slot][var][node], units of 1/nh
    bold_state,  \* hemodynamic state [node] -> <<s, f, v, q>>
    bold_out,    \* BOLD output buffer [node]
    tavg_trace,  \* [window][slot][var][node]
    bold_trace,  \* [entry][node]
    win,         \* t of run_loop's window loop
    t0,          \* t0 of loop's step loop
    total_wins,  \* int(total_time / win_len)
    bold_skip,   \* int(bold_tr / win_len)
    ret,         \* what run_loop returned: [tavg, bold], or <<>> before it returns
    calls,       \* number of invocations of run_loop started so far
    prev,        \* what the previous invocation returned
    probe,       \* inputs and result of a function applied on its own
    sim,         \* the resumable simulation instance (co-simulation)
    ghost        \* history variables of the verification (not program state)

vars == <<pc, err, args, nn, d, r, V, wrV, rng, tavg, bold_state, bold_out,
          tavg_trace, bold_trace, win, t0, total_wins, bold_skip, ret, calls,
          prev, probe, sim, ghost>>

others == <<probe, sim>>

(***************************************************************************)
(* Bounds of the model.                                                    *)
(***************************************************************************)
MaxNh    == 3      \* history lengths 1..MaxNh
MaxNto   == 2      \* sub-window counts 1..MaxNto
MaxNn    == 2      \* matrix side lengths 1..MaxNn
MaxWins  == 2      \* total_time up to MaxWins windows (plus a remainder)
MaxSkip  == 2      \* bold_tr up to MaxSkip windows
MaxVal   == 3      \* largest magnitude on the value grid
MaxCalls == 2      \* invocations of run_loop in one behaviour

(***************************************************************************)
(* Arguments of run_loop held fixed in the model (grid analogues of the    *)
(* keyword arguments) and the constants of fmri rounded to the grid.       *)
(***************************************************************************)
I                == 1
Delta            == 3
eta              == -5
tau              == 1
J                == 1
cr               == 1
cv               == 1
r_sigma          == 1
V_sigma          == 1
coupling_scaling == 1
Pi               == 3
Seed             == 42

RECIP_TAU_S == 2
RECIP_TAU_F == 2
RECIP_TAU_O == 1
RECIP_ALPHA == 3
V0          == 4
k1          == 3
k2          == 0
k3          == 1

(***************************************************************************)
(* Arithmetic helpers.                                                     *)
(***************************************************************************)
Abs(x) == IF x < 0 THEN -x ELSE x

Sgn(x) == IF x < 0 THEN -1 ELSE IF x > 0 THEN 1 ELSE 0

\* float32 store: saturate at the ends of the grid
F32(x) == IF x > MaxVal THEN MaxVal ELSE IF x < -MaxVal THEN -MaxVal ELSE x

\* x / y rounded towards zero onto the grid; x / 0 saturates like +-inf
Quot(x, y) ==
    IF y = 0 THEN (IF x < 0 THEN -MaxVal ELSE MaxVal)
    ELSE Sgn(x) * Sgn(y) * (Abs(x) \div Abs(y))

RECURSIVE Pow(_, _)
Pow(x, n) == IF n = 0 THEN 1 ELSE F32(x * Pow(x, n - 1))

RECURSIVE BitAndNat(_, _)
BitAndNat(a, b) ==
    IF a = 0 \/ b = 0 THEN 0
    ELSE (a % 2) * (b % 2) + 2 * BitAndNat(a \div 2, b \div 2)

\* a & b for b >= 0 (two's complement a, as for int64 operands)
BitAnd(a, b) == BitAndNat(a % 65536, b)

IsPow2(n) == \E k \in 0..8 : n = 2 ^ k

Sqrt(x) == CHOOSE s \in 0..x : s * s <= x /\ x < (s + 1) * (s + 1)

(***************************************************************************)
(* The seeded generator.  SFC64(42) yields one fixed stream; the model     *)
(* takes the value at each position of the stream from the grid -1..1 and  *)
(* lets the stream be any one of Streams.                                *)
(***************************************************************************)
standard_normal(key, pos) == ((pos * pos + (key + 1) * pos + key) % 3) - 1

(***************************************************************************)
(* fmri: one explicit Euler step of the balloon model for one node.        *)
(***************************************************************************)
\* f * (1 - pow(1 - E0, 1 / f)) * RECIP_E0 rounded to the grid
OxygenExtraction(f) == IF f = 0 THEN 0 ELSE IF f = -1 THEN 2 ELSE 1

fmri_state(node_bold, x, dt) ==
    LET s  == node_bold[1]
        f  == node_bold[2]
        v  == node_bold[3]
        q  == node_bold[4]
        ds == x - RECIP_TAU_S * s - RECIP_TAU_F * (f - 1)
        df == s
        dv == RECIP_TAU_O * (f - Pow(v, RECIP_ALPHA))
        dq == RECIP_TAU_O * (OxygenExtraction(f)
                             - Pow(v, RECIP_ALPHA) * Quot(q, v))
    IN  <<F32(s + dt * ds), F32(f + dt * df), F32(v + dt * dv), F32(q + dt * dq)>>

fmri(node_bold, x, dt) ==
    LET nb == fmri_state(node_bold, x, dt)
        v  == nb[3]
        q  == nb[4]
    IN  F32(V0 * (k1 * (1 - q) + k2 * (1 - Quot(q, v)) + k3 * (1 - v)))

(***************************************************************************)
(* make_linear_cfun and the two right-hand sides of make_loop.             *)
(***************************************************************************)
cfpre(xj, xi) == xj

cfpost(gx) == F32(coupling_scaling * gx)

dr(r_, V_, o_tau) == F32(o_tau * (Quot(Delta, Pi * tau) + 2 * V_ * r_))

dV(r_, V_, o_tau, rc, Vc) ==
    F32(o_tau * (V_ * V_ - (Pi * Pi) * (tau * tau) * (r_ * r_) + eta
                 + J * tau * r_ + I + cr * rc + cv * Vc))

(***************************************************************************)
(* make_loop.loop.  A loop state st is the record of the buffers the loop  *)
(* mutates: r, V, tavg, bold_state, bold_out, and the history variables g. *)
(***************************************************************************)
\* the mask taken as nh instead of nh-1
DelayIndexMaskNh(t, dij_d, nh) == BitAnd(t - dij_d + nh, nh)

\* dij = (t - d[i, j] + nh) & (nh-1)
DelayIndex(t, dij_d, nh) == BitAnd(t - dij_d + nh, nh - 1)

\* the first step of a window taking slot 0 as its current state
CurrentIndexFirstSlot(t0_, nh) == IF t0_ < 0 THEN 0 ELSE t0_

\* t = nh-1 if t0<0 else t0
CurrentIndex(t0_, nh) == IF t0_ < 0 THEN nh - 1 ELSE t0_

\* a negative index taken as slot 0
TavgIndexClipped(t0_, nh, nto) ==
    LET k == t0_ \div (nh \div nto)
    IN  IF k < 0 THEN 0 ELSE k

\* t0_nto = t0 // (nh // nto), then Python's wraparound of a negative index
TavgIndex(t0_, nh, nto) ==
    LET k == t0_ \div (nh \div nto)
    IN  IF k < 0 THEN k + nto ELSE k

\* rc += w[i, j] * cfpre(r[dij, j], r[t, i]) for j in range(nn)
RECURSIVE CouplingSum(_, _, _, _, _, _, _)
CouplingSum(x, w, dd, t, i, j, nh) ==
    IF j < 0 THEN 0
    ELSE F32(CouplingSum(x, w, dd, t, i, j - 1, nh)
             + w[i][j] * cfpre(x[DelayIndex(t, dd[i][j], nh)][j], x[t][i]))

\* r[t, i] + o_6*dt*(dr_0 + 2*(dr_1 + dr_2) + dr_3) + sqrt_dt * r_sigma * wrV[0, t, i]
\* and the same for V: the pair <<r, V>> before the clamp
RK4(ri, Vi, rc, Vc, dt, nr, nV) ==
    LET o_tau == Quot(1, tau)
        h     == dt                       \* dt*kh with kh = 0.5 is Quot(h * k, 2)
        dr_0  == dr(ri, Vi, o_tau)
        dV_0  == dV(ri, Vi, o_tau, rc, Vc)
        dr_1  == dr(F32(ri + Quot(h * dr_0, 2)), F32(Vi + Quot(h * dV_0, 2)), o_tau)
        dV_1  == dV(F32(ri + Quot(h * dr_0, 2)), F32(Vi + Quot(h * dV_0, 2)), o_tau, rc, Vc)
        dr_2  == dr(F32(ri + Quot(h * dr_1, 2)), F32(Vi + Quot(h * dV_1, 2)), o_tau)
        dV_2  == dV(F32(ri + Quot(h * dr_1, 2)), F32(Vi + Quot(h * dV_1, 2)), o_tau, rc, Vc)
        dr_3  == dr(F32(ri + h * dr_2), F32(Vi + h * dV_2), o_tau)
        dV_3  == dV(F32(ri + h * dr_2), F32(Vi + h * dV_2), o_tau, rc, Vc)
    IN  << F32(ri + Quot(dt * (dr_0 + 2 * (dr_1 + dr_2) + dr_3), 6)
               + Sqrt(dt) * r_sigma * nr),
           F32(Vi + Quot(dt * (dV_0 + 2 * (dV_1 + dV_2) + dV_3), 6)
               + Sqrt(dt) * V_sigma * nV) >>

\* the update without the clamp
NoClamp(x) == x

\* r[t1, i] *= r[t1, i] >= 0
Clamp(x) == x * (IF x >= 0 THEN 1 ELSE 0)

\* o_nh = 1 / nh * nto, in the buffer's units of 1/nh
o_nh(nh, nto) == nto

\* the body of "for i in range(nn)" for one node i at step t0 (lines 85-108)
NodeUpdate(st, a, wr, t0_, i) ==
    LET t    == CurrentIndex(t0_, a.nh)
        t1   == t0_ + 1
        k    == TavgIndex(t0_, a.nh, a.nto)
        rc   == cfpost(CouplingSum(st.r, a.w, a.d, t, i, a.nn - 1, a.nh))
        Vc   == cfpost(CouplingSum(st.V, a.w, a.d, t, i, a.nn - 1, a.nh))
        rv   == RK4(st.r[t][i], st.V[t][i], rc, Vc, a.dt, wr[0][t][i], wr[1][t][i])
        r1   == Clamp(rv[1])
        V1   == rv[2]
        tv   == [st.tavg EXCEPT ![k][0][i] = @ + r1 * o_nh(a.nh, a.nto),
                                ![k][1][i] = @ + V1 * o_nh(a.nh, a.nto)]
        x    == Quot(tv[0][0][i], a.nh)
        now  == st.g.tag[t][i]
    IN  [ r          |-> [st.r EXCEPT ![t1][i] = r1],
          V          |-> [st.V EXCEPT ![t1][i] = V1],
          tavg       |-> tv,
          bold_state |-> [st.bold_state EXCEPT ![i] = fmri_state(@, x, a.dt)],
          bold_out   |-> [st.bold_out EXCEPT ![i] = fmri(st.bold_state[i], x, a.dt)],
          g          |-> [st.g EXCEPT
                            !.tag[t1][i] = now + 1,
                            !.now[i]     = now,
                            !.reads[i]   = [j \in 0..(a.nn - 1) |->
                                              st.g.tag[DelayIndex(t, a.d[i][j], a.nh)][j]],
                            !.raw[i]     = rv[1],
                            !.rawV[i]    = rv[2],
                            !.slot       = k,
                            !.used       = @ \o << <<0, t, i>>, <<1, t, i>> >>,
                            !.contrib[k] = IF i = 0 THEN Append(@, t1) ELSE @,
                            !.traj[i]    = Append(@, <<r1, V1>>),
                            !.read       = t,
                            !.wrote      = t1,
                            !.fmri_calls[i] = @ + 1] ]

\* "for i in range(nn)": nodes i..nn-1 of step t0, in order
RECURSIVE NodeLoop(_, _, _, _, _)
NodeLoop(st, a, wr, t0_, i) ==
    IF i >= a.nn THEN st
    ELSE NodeLoop(NodeUpdate(st, a, wr, t0_, i), a, wr, t0_, i + 1)

\* one iteration of "for t0 in range(-1, nh - 1)"
LoopBody(st, a, wr, t0_) ==
    [NodeLoop(st, a, wr, t0_, 0) EXCEPT !.g.steps = @ + 1]

\* the history variables of one window, at its start
WindowGhost(g, a) ==
    [g EXCEPT !.contrib = [k \in 0..(a.nto - 1) |-> <<>>],
              !.traj = [i \in 0..(a.nn - 1) |-> <<>>],
              !.used = <<>>]

\* lines 76-79: zero the temporal-average accumulator
ZeroTavg(a) == [k \in 0..(a.nto - 1) |-> [v \in 0..1 |-> [i \in 0..(a.nn - 1) |-> 0]]]

\* the steps taken from t0 = 0: range(0, nh - 1), the step t0 = -1 left out
RECURSIVE StepLoopFromZero(_, _, _, _)
StepLoopFromZero(st, a, wr, t0_) ==
    IF t0_ < 0 THEN StepLoopFromZero(st, a, wr, 0)
    ELSE IF t0_ > a.nh - 2 THEN st
    ELSE StepLoopFromZero(LoopBody(st, a, wr, t0_), a, wr, t0_ + 1)

\* the whole of one call of loop: zero tavg, then steps t0_..nh-2
RECURSIVE StepLoop(_, _, _, _)
StepLoop(st, a, wr, t0_) ==
    IF t0_ > a.nh - 2 THEN st
    ELSE StepLoop(LoopBody(st, a, wr, t0_), a, wr, t0_ + 1)

loop(st, a, wr) ==
    StepLoop([st EXCEPT !.tavg = ZeroTavg(a), !.g = WindowGhost(@, a)], a, wr, -1)

(***************************************************************************)
(* run_loop.                                                               *)
(***************************************************************************)
Nodes(n) == 0..(n - 1)

\* np.empty: the content is whatever the allocator hands out
Garbage == {0, MaxVal}

\* line 126
ShapesOK(a) == a.wshape = a.dshape /\ a.wshape[1] = a.wshape[2]

\* line 129: d = (delays / dt).astype(np.uint32)
Discretize(delays, dt) ==
    [i \in DOMAIN delays |-> [j \in DOMAIN delays[i] |-> delays[i][j] \div dt]]

\* default_icfun(t, rV), called with t = -np.r_[:nh]*dt: slot k is given time -k*dt
default_icfun(t, var) == IF var = 0 THEN 0 ELSE -2

\* line 133: the time-offset array -np.r_[:nh]*dt handed to icfun, one per slot
IcfunTimes(nh, dt) == [k \in 0..(nh - 1) |-> -(k * dt)]

\* lines 132-133
InitialHistory(nh, n, dt, var) ==
    [k \in 0..(nh - 1) |-> [i \in Nodes(n) |-> default_icfun(-(k * dt), var)]]

\* line 146: total_wins = int(total_time / win_len)
TotalWins(total_time, win_len) == total_time \div win_len

\* line 147: bold_skip = int(bold_tr / win_len)
BoldSkip(bold_tr, win_len) == bold_tr \div win_len

\* the bold trace without the additional entry
BoldTraceLenNoExtra(tw, bs) == tw \div bs

\* line 149: total_wins//bold_skip + 1
BoldTraceLen(tw, bs) == tw \div bs + 1

\* d.max() <= nh
DelaysOKIncludingNh(dd, nh) == \A i \in DOMAIN dd : \A j \in DOMAIN dd[i] : dd[i][j] <= nh

\* line 130: d.max() < nh
DelaysOK(dd, nh) == \A i \in DOMAIN dd : \A j \in DOMAIN dd[i] : dd[i][j] < nh

\* every window's noise buffer taken from the start of the stream
DrawFromStart(key, pos, nh, n) ==
    [v \in 0..1 |-> [t \in 0..(nh - 1) |-> [i \in Nodes(n) |->
        standard_normal(key, (v * nh + t) * n + i)]]]

\* line 152: rng.standard_normal(size=(2, nh, nn), out=wrV), filled in C order
Draw(key, pos, nh, n) ==
    [v \in 0..1 |-> [t \in 0..(nh - 1) |-> [i \in Nodes(n) |->
        standard_normal(key, pos + (v * nh + t) * n + i)]]]

\* the blocks read out in column-major (Fortran) order
ReshapeColumnMajor(trace, wins, nto) ==
    [m \in 0..(wins * nto - 1) |-> trace[m % wins][m \div wins]]

\* line 157: tavg_trace.reshape((total_wins * nto, 2, nn))
Reshape(trace, wins, nto) ==
    [m \in 0..(wins * nto - 1) |-> trace[m \div nto][m % nto]]

\* every stored row a view of the one buffer: all rows stored so far show it
StoreReference(trace, t, buf) ==
    [w \in DOMAIN trace |-> IF w <= t THEN buf ELSE trace[w]]

\* lines 154, 156: trace[t] = buf copies the buffer's values into row t
StoreBlock(trace, t, buf) == [trace EXCEPT ![t] = buf]

\* the arguments the loop closure and its call are given
LoopArgs == [nh |-> args.nh, nto |-> args.nto, nn |-> nn, dt |-> args.dt,
             w |-> args.weights, d |-> d]

LoopState == [r |-> r, V |-> V, tavg |-> tavg, bold_state |-> bold_state,
              bold_out |-> bold_out, g |-> ghost.loop]

BlankGhost == [loop |-> <<>>, bold_writes |-> <<>>, tavg_writes |-> <<>>,
               bold_hist |-> <<>>, tavg_hist |-> <<>>, draws |-> 0,
               loop_calls |-> 0, ictime |-> <<>>]

\* history variables of the loop: slot k of the initial history holds the state
\* nh-1-k steps before the first current state (the order in which the loop reads it)
InitialLoopGhost(nh, n) ==
    [tag   |-> [k \in 0..(nh - 1) |-> [i \in Nodes(n) |-> k - (nh - 1)]],
     now   |-> [i \in Nodes(n) |-> 0],
     reads |-> [i \in Nodes(n) |-> [j \in Nodes(n) |-> 0]],
     raw   |-> [i \in Nodes(n) |-> 0],
     rawV  |-> [i \in Nodes(n) |-> 0],
     slot  |-> 0,
     steps |-> 0,
     contrib |-> <<>>,
     traj  |-> <<>>,
     used  |-> <<>>,
     read  |-> 0,
     wrote |-> 0,
     fmri_calls |-> [i \in Nodes(n) |-> 0]]

Fail(e) ==
    /\ pc' = "failed"
    /\ err' = e
    /\ UNCHANGED <<args, r, V, wrV, rng, tavg, bold_state, bold_out, tavg_trace,
                   bold_trace, win, t0, total_wins, bold_skip, ret, calls, prev,
                   ghost>>

\* lines 126-149: the checks, the buffers and the outer loop's dimensions
Setup ==
    /\ UNCHANGED others
    /\ pc = "call"
    /\ IF ~ShapesOK(args)
       THEN Fail("AssertionError") /\ UNCHANGED <<nn, d>>
       ELSE
         LET n  == args.wshape[1]
             dd == Discretize(args.delays, args.dt)
             win_len == args.nh * args.dt
             tw == TotalWins(args.total_time, win_len)
             bs == BoldSkip(args.bold_tr, win_len)
         IN  /\ nn' = n
             /\ d' = dd
             /\ IF ~DelaysOK(dd, args.nh) THEN Fail("AssertionError")
                ELSE IF bs = 0 THEN Fail("ZeroDivisionError")
                ELSE \E junk \in Garbage :
                  /\ r' = InitialHistory(args.nh, n, args.dt, 0)
                  /\ V' = InitialHistory(args.nh, n, args.dt, 1)
                  /\ wrV' = [v \in 0..1 |-> [t \in 0..(args.nh - 1) |->
                               [i \in Nodes(n) |-> junk]]]
                  /\ tavg' = [k \in 0..(args.nto - 1) |-> [v \in 0..1 |->
                               [i \in Nodes(n) |-> 0]]]
                  /\ bold_state' = [i \in Nodes(n) |-> <<0, 1, 1, 1>>]
                  /\ bold_out' = [i \in Nodes(n) |-> 0]
                  /\ rng' = 0
                  /\ total_wins' = tw
                  /\ bold_skip' = bs
                  /\ tavg_trace' = [w \in 0..(tw - 1) |-> [k \in 0..(args.nto - 1) |->
                                      [v \in 0..1 |-> [i \in Nodes(n) |-> junk]]]]
                  /\ bold_trace' = [e \in 0..(BoldTraceLen(tw, bs) - 1) |->
                                      [i \in Nodes(n) |-> junk]]
                  /\ win' = 0
                  /\ t0' = -1
                  /\ ghost' = [BlankGhost EXCEPT
                       !.loop = InitialLoopGhost(args.nh, n),
                       !.ictime = IcfunTimes(args.nh, args.dt),
                       !.bold_writes = [e \in 0..(BoldTraceLen(tw, bs) - 1) |-> <<>>],
                       !.tavg_writes = [w \in 0..(tw - 1) |-> <<>>]]
                  /\ pc' = "draw"
                  /\ UNCHANGED <<err, args, ret, calls, prev>>

\* line 152: one noise buffer for the window
DrawNoise ==
    /\ UNCHANGED others
    /\ pc = "draw"
    /\ win < total_wins
    /\ wrV' = Draw(args.stream, rng, args.nh, nn)
    /\ rng' = rng + 2 * args.nh * nn
    /\ ghost' = [ghost EXCEPT !.draws = @ + 1]
    /\ pc' = "enter"
    /\ UNCHANGED <<err, args, nn, d, r, V, tavg, bold_state, bold_out, tavg_trace,
                   bold_trace, win, t0, total_wins, bold_skip, ret, calls, prev>>

\* line 153, lines 74-79: loop is entered and zeroes the accumulator
LoopEnter ==
    /\ UNCHANGED others
    /\ pc = "enter"
    /\ tavg' = ZeroTavg(LoopArgs)
    /\ t0' = -1
    /\ ghost' = [ghost EXCEPT !.loop_calls = @ + 1,
                               !.loop = WindowGhost(@, LoopArgs)]
    /\ pc' = "loop"
    /\ UNCHANGED <<err, args, nn, d, r, V, wrV, rng, bold_state, bold_out,
                   tavg_trace, bold_trace, win, total_wins, bold_skip, ret, calls,
                   prev>>

\* lines 80-108: one step t0 of the window, all nodes
LoopStep ==
    /\ UNCHANGED others
    /\ pc = "loop"
    /\ IF args.nh \div args.nto = 0 THEN Fail("ZeroDivisionError") /\ UNCHANGED <<nn, d>>
       ELSE IF TavgIndex(t0, args.nh, args.nto) \notin 0..(args.nto - 1)
       THEN Fail("OutOfBounds") /\ UNCHANGED <<nn, d>>
       ELSE
         LET st == LoopBody(LoopState, LoopArgs, wrV, t0)
         IN  /\ r' = st.r
             /\ V' = st.V
             /\ tavg' = st.tavg
             /\ bold_state' = st.bold_state
             /\ bold_out' = st.bold_out
             /\ ghost' = [ghost EXCEPT !.loop = st.g]
             /\ t0' = t0 + 1
             /\ pc' = IF t0 + 1 > args.nh - 2 THEN "record" ELSE "loop"
             /\ UNCHANGED <<err, args, nn, d, wrV, rng, tavg_trace, bold_trace, win,
                            total_wins, bold_skip, ret, calls, prev>>

\* lines 154-156: store the window's block and, every bold_skip windows, the BOLD
Record ==
    /\ UNCHANGED others
    /\ pc = "record"
    /\ tavg_trace' = StoreBlock(tavg_trace, win, tavg)
    /\ bold_trace' = IF win % bold_skip = 0
                     THEN StoreBlock(bold_trace, win \div bold_skip, bold_out)
                     ELSE bold_trace
    /\ ghost' = [ghost EXCEPT
                   !.tavg_writes[win] = Append(@, win),
                   !.bold_writes = IF win % bold_skip = 0
                                   THEN [@ EXCEPT ![win \div bold_skip] = Append(@, win)]
                                   ELSE @,
                   !.tavg_hist = Append(@, tavg),
                   !.bold_hist = Append(@, bold_out)]
    /\ win' = win + 1
    /\ pc' = "draw"
    /\ UNCHANGED <<err, args, nn, d, r, V, wrV, rng, tavg, bold_state, bold_out, t0,
                   total_wins, bold_skip, ret, calls, prev>>

\* line 157
Return ==
    /\ UNCHANGED others
    /\ pc = "draw"
    /\ win >= total_wins
    /\ ret' = [tavg |-> Reshape(tavg_trace, total_wins, args.nto), bold |-> bold_trace]
    /\ pc' = "done"
    /\ UNCHANGED <<err, args, nn, d, r, V, wrV, rng, tavg, bold_state, bold_out,
                   tavg_trace, bold_trace, win, t0, total_wins, bold_skip, calls,
                   prev, ghost>>

\* the caller invokes run_loop again with identical arguments
Reinvoke ==
    /\ UNCHANGED others
    /\ pc = "done"
    /\ calls < MaxCalls
    /\ prev' = ret
    /\ ret' = <<>>
    /\ calls' = calls + 1
    /\ pc' = "call"
    /\ UNCHANGED <<err, args, nn, d, r, V, wrV, rng, tavg, bold_state, bold_out,
                   tavg_trace, bold_trace, win, t0, total_wins, bold_skip, ghost>>

(***************************************************************************)
(* The arguments considered.                                               *)
(***************************************************************************)
Shapes == (1..MaxNn) \X (1..MaxNn)

\* step sizes considered, and the streams the seeded generator may yield
DTs == {1, 2}

Streams == {0, 1}

\* a delay matrix (in time units) whose entries discretize to lo below the diagonal
\* and to up elsewhere; each is the largest time that truncates to that step count
DelayMatrix(shape, lo, up, dt) ==
    [i \in 0..(shape[1] - 1) |-> [j \in 0..(shape[2] - 1) |->
        (IF j < i THEN lo ELSE up) * dt + (dt - 1)]]

Weights(shape) == [i \in 0..(shape[1] - 1) |-> [j \in 0..(shape[2] - 1) |-> 1]]

Arg(ws, ds, dt, nh, nto, lo, up, tw, bs, key) ==
    [wshape |-> ws, dshape |-> ds, weights |-> Weights(ws),
     delays |-> DelayMatrix(ds, lo, up, dt), dt |-> dt, nh |-> nh, nto |-> nto,
     total_time |-> tw * nh * dt + (dt - 1),
     bold_tr |-> bs * nh * dt + (dt - 1),
     stream |-> key]

\* square matrices of equal shape; delays up to nh steps (nh itself is too long)
SquareArguments ==
    UNION { { Arg(<<n, n>>, <<n, n>>, dt, nh, nto, lo, up, tw, bs, key) :
                up \in {0, lo}, dt \in DTs, nto \in 1..MaxNto, tw \in 0..MaxWins,
                bs \in 0..MaxSkip, key \in Streams } :
            n \in 1..MaxNn, nh \in 1..MaxNh, lo \in 0..MaxNh } 

\* every pair of shapes, with the other arguments held at one value
ShapeArguments ==
    { Arg(ws, ds, 1, 2, 1, 1, 0, 1, 1, 0) : ws \in Shapes, ds \in Shapes }

Arguments == SquareArguments \cup ShapeArguments

Init ==
    /\ args \in Arguments
    /\ pc = "call"
    /\ err = ""
    /\ nn = 0
    /\ d = <<>>
    /\ r = <<>>
    /\ V = <<>>
    /\ wrV = <<>>
    /\ rng = 0
    /\ tavg = <<>>
    /\ bold_state = <<>>
    /\ bold_out = <<>>
    /\ tavg_trace = <<>>
    /\ bold_trace = <<>>
    /\ win = 0
    /\ t0 = -1
    /\ total_wins = 0
    /\ bold_skip = 0
    /\ ret = <<>>
    /\ calls = 1
    /\ prev = <<>>
    /\ probe = <<>>
    /\ sim = <<>>
    /\ ghost = BlankGhost

Next ==
    \/ Setup
    \/ DrawNoise
    \/ LoopEnter
    \/ LoopStep
    \/ Record
    \/ Return

Spec == Init /\ [][Next]_vars

\* run_loop invoked MaxCalls times with identical arguments
NextTwice ==
    \/ Setup
    \/ DrawNoise
    \/ LoopEnter
    \/ LoopStep
    \/ Record
    \/ Return
    \/ Reinvoke

SpecTwice == Init /\ [][NextTwice]_vars

(***************************************************************************)
(* The resumable driver: run_loop's buffers, generator and hemodynamic     *)
(* state kept from one invocation to the next, each invocation running the *)
(* next chunk of windows of the horizon.  The single uninterrupted         *)
(* invocation it is compared with is run_loop above.                       *)
(***************************************************************************)
MaxChunk == 2      \* windows per invocation of the resumable driver: 1..MaxChunk

\* lines 132-140 for the resumable driver's own buffers
ResumeCreate ==
    /\ pc = "done"
    /\ sim = <<>>
    /\ sim' = [st |-> [r |-> InitialHistory(args.nh, nn, args.dt, 0),
                       V |-> InitialHistory(args.nh, nn, args.dt, 1),
                       tavg |-> ZeroTavg(LoopArgs),
                       bold_state |-> [i \in Nodes(nn) |-> <<0, 1, 1, 1>>],
                       bold_out |-> [i \in Nodes(nn) |-> 0],
                       g |-> InitialLoopGhost(args.nh, nn)],
               rng |-> 0,
               win |-> 0,
               chunks |-> <<>>,
               tavg_out |-> <<>>,
               bold_out |-> <<>>]
    /\ UNCHANGED <<pc, err, args, nn, d, r, V, wrV, rng, tavg, bold_state, bold_out,
                   tavg_trace, bold_trace, win, t0, total_wins, bold_skip, ret,
                   calls, prev, probe, ghost>>

\* lines 151-156 for c windows, from the state the last invocation left
RECURSIVE RunWindows(_, _, _, _)
RunWindows(s, a, key, c) ==
    IF c = 0 THEN s
    ELSE LET wr == Draw(key, s.rng, a.nh, a.nn)
             st == loop(s.st, a, wr)
         IN  RunWindows([s EXCEPT !.st = st,
                                  !.rng = @ + 2 * a.nh * a.nn,
                                  !.win = @ + 1,
                                  !.tavg_out = Append(@, st.tavg),
                                  !.bold_out = Append(@, st.bold_out)],
                        a, key, c - 1)

\* one invocation of the resumable driver over the next c windows
ResumeInvoke ==
    /\ pc = "done"
    /\ sim # <<>>
    /\ args.nh \div args.nto > 0
    /\ \E c \in 1..MaxChunk :
          /\ sim.win + c <= total_wins
          /\ sim' = [RunWindows(sim, LoopArgs, args.stream, c) EXCEPT
                       !.chunks = Append(@, c)]
    /\ UNCHANGED <<pc, err, args, nn, d, r, V, wrV, rng, tavg, bold_state, bold_out,
                   tavg_trace, bold_trace, win, t0, total_wins, bold_skip, ret,
                   calls, prev, probe, ghost>>

NextResume ==
    \/ Setup
    \/ DrawNoise
    \/ LoopEnter
    \/ LoopStep
    \/ Record
    \/ Return
    \/ ResumeCreate
    \/ ResumeInvoke

SpecResume == Init /\ [][NextResume]_vars

(***************************************************************************)
(* Co-simulation: simulation instances invoked one synchronization window  *)
(* at a time (TvbSim of the precision test).  An instance keeps the whole  *)
(* history of its nodes; an instance with proxy nodes does not compute     *)
(* them: before a window's steps it is given the proxies' trajectory over  *)
(* the preceding window, which it splices into its history.  The step of a *)
(* node is the integrator's (delayed coupling, RK4, noise, clamp).         *)
(* sim.ref is the instance without proxies, sim.part the one with proxies. *)
(***************************************************************************)
MaxSync    == 2    \* synchronization windows of 1..MaxSync steps
MaxSlack   == 1    \* delays from the window length up to MaxSlack steps more
MaxSyncs   == 3    \* windows simulated by an instance

\* what an instance holds for a node it has neither computed nor been given
Unknown == <<MaxVal, MaxVal>>

\* the state of step n (n = 0 the last initial one) in a history of H initial states
At(hist, H, n) == hist[n + H]

\* weighted delayed sum over j of variable v, read from the whole history
RECURSIVE CoCoupling(_, _, _, _, _, _, _, _)
CoCoupling(hist, H, w, dd, n, i, j, v) ==
    IF j < 0 THEN 0
    ELSE F32(CoCoupling(hist, H, w, dd, n, i, j - 1, v)
             + w[i][j] * cfpre(At(hist, H, n - dd[i][j])[j][v], At(hist, H, n)[i][v]))

\* the states of step n+1: nodes of compute advanced from step n, the others unknown
CoStep(hist, H, c, n, compute) ==
    [i \in Nodes(c.nn) |->
        IF i \in compute
        THEN LET rc == cfpost(CoCoupling(hist, H, c.w, c.d, n, i, c.nn - 1, 1))
                 Vc == cfpost(CoCoupling(hist, H, c.w, c.d, n, i, c.nn - 1, 2))
                 rv == RK4(At(hist, H, n)[i][1], At(hist, H, n)[i][2], rc, Vc, 1,
                           standard_normal(c.key, (2 * n) * c.nn + i),
                           standard_normal(c.key, (2 * n + 1) * c.nn + i))
             IN  <<Clamp(rv[1]), rv[2]>>
        ELSE Unknown]

\* steps n+1 .. last of one window
RECURSIVE CoWindow(_, _, _, _, _, _)
CoWindow(hist, H, c, n, last, compute) ==
    IF n >= last THEN hist
    ELSE CoWindow(Append(hist, CoStep(hist, H, c, n, compute)), H, c, n + 1, last,
                  compute)

\* the instance is given nothing
NoOverride(hist, H, from, proxies, first, last) == hist

\* the proxies' states of steps first..last of from spliced into hist
Override(hist, H, from, proxies, first, last) ==
    [k \in DOMAIN hist |->
        IF k - H \in first..last
        THEN [i \in DOMAIN hist[k] |-> IF i \in proxies THEN from[k][i] ELSE hist[k][i]]
        ELSE hist[k]]

CoInitialHistory(H, n) ==
    [k \in 1..H |-> [i \in Nodes(n) |-> <<default_icfun(0, 0), default_icfun(0, 1)>>]]

\* the reference instance simulates its next window, all nodes computed
RefInvoke ==
    /\ pc = "cosim"
    /\ sim.kref < MaxSyncs
    /\ sim' = [sim EXCEPT
                 !.ref = CoWindow(@, sim.H, sim.c, sim.kref * sim.S,
                                  (sim.kref + 1) * sim.S, Nodes(sim.c.nn)),
                 !.kref = @ + 1]
    /\ UNCHANGED <<pc, err, args, nn, d, r, V, wrV, rng, tavg, bold_state, bold_out,
                   tavg_trace, bold_trace, win, t0, total_wins, bold_skip, ret,
                   calls, prev, probe, ghost>>

\* the instance with proxies is given the proxies' trajectory of the preceding
\* window (none before its first window) and simulates its next window
PartInvoke ==
    /\ pc = "cosim"
    /\ sim.kpart < MaxSyncs
    /\ sim.kpart <= sim.kref
    /\ LET m     == sim.kpart
           given == IF m = 0 THEN sim.part
                    ELSE Override(sim.part, sim.H, sim.ref, sim.P,
                                  (m - 1) * sim.S + 1, m * sim.S)
       IN  sim' = [sim EXCEPT
                     !.part = CoWindow(given, sim.H, sim.c, m * sim.S,
                                       (m + 1) * sim.S, Nodes(sim.c.nn) \ sim.P),
                     !.kpart = @ + 1]
    /\ UNCHANGED <<pc, err, args, nn, d, r, V, wrV, rng, tavg, bold_state, bold_out,
                   tavg_trace, bold_trace, win, t0, total_wins, bold_skip, ret,
                   calls, prev, probe, ghost>>

\* two nodes, one of them the proxy; every delay at least the synchronization window
InitCosim ==
    /\ \E S \in 1..MaxSync : \E lo \in S..(S + MaxSlack) : \E up \in S..(S + MaxSlack) :
       \E p \in Nodes(2) : \E key \in Streams :
          LET H == S + MaxSlack + 1
          IN  sim = [S |-> S, H |-> H, P |-> {p},
                     c |-> [nn |-> 2, key |-> key, w |-> Weights(<<2, 2>>),
                            d |-> Discretize(DelayMatrix(<<2, 2>>, lo, up, 1), 1)],
                     ref |-> CoInitialHistory(H, 2), part |-> CoInitialHistory(H, 2),
                     kref |-> 0, kpart |-> 0]
    /\ pc = "cosim"
    /\ err = ""
    /\ args = <<>>
    /\ nn = 0
    /\ d = <<>>
    /\ r = <<>>
    /\ V = <<>>
    /\ wrV = <<>>
    /\ rng = 0
    /\ tavg = <<>>
    /\ bold_state = <<>>
    /\ bold_out = <<>>
    /\ tavg_trace = <<>>
    /\ bold_trace = <<>>
    /\ win = 0
    /\ t0 = -1
    /\ total_wins = 0
    /\ bold_skip = 0
    /\ ret = <<>>
    /\ calls = 0
    /\ prev = <<>>
    /\ probe = <<>>
    /\ ghost = BlankGhost

NextCosim ==
    \/ RefInvoke
    \/ PartInvoke

SpecCosim == InitCosim /\ [][NextCosim]_vars

(***************************************************************************)
(* Claims.                                                                 *)
(***************************************************************************)
StepDone == pc \in {"loop", "record", "draw", "enter", "done"} /\ ghost.loop.steps > 0

\* C1: at every step, for every ordered node pair (i, j), the state of node j that
\* enters node i's coupling sums is node j's state exactly d[i,j] steps before the
\* step's current state (the state an integrator with unbounded history would read).
C1_DelayedRead ==
    (StepDone /\ IsPow2(args.nh) /\ args.nh >= 2) =>
        \A i \in Nodes(nn) : \A j \in Nodes(nn) :
            ghost.loop.reads[i][j] = ghost.loop.now[i] - d[i][j]

\* the same, leaving out the pairs with j < i and d[i,j] = nh-1
C1_DelayedReadElsewhere ==
    (StepDone /\ IsPow2(args.nh)) =>
        \A i \in Nodes(nn) : \A j \in Nodes(nn) :
            (j >= i \/ d[i][j] # args.nh - 1) =>
                ghost.loop.reads[i][j] = ghost.loop.now[i] - d[i][j]

(***************************************************************************)
(* The delay lookup index on its own: line 88 applied to every current     *)
(* index t and delay dly of a power-of-two history length.                 *)
(***************************************************************************)
MaxLogNh == 4      \* history lengths 2^0 .. 2^MaxLogNh

InitMask ==
    /\ \E k \in 0..MaxLogNh : \E t \in 0..(2 ^ k - 1) : \E dly \in 0..(2 ^ k - 1) :
          probe = [nh |-> 2 ^ k, t |-> t, dly |-> dly, dij |-> -1]
    /\ pc = "mask"
    /\ err = ""
    /\ args = <<>>
    /\ nn = 0
    /\ d = <<>>
    /\ r = <<>>
    /\ V = <<>>
    /\ wrV = <<>>
    /\ rng = 0
    /\ tavg = <<>>
    /\ bold_state = <<>>
    /\ bold_out = <<>>
    /\ tavg_trace = <<>>
    /\ bold_trace = <<>>
    /\ win = 0
    /\ t0 = -1
    /\ total_wins = 0
    /\ bold_skip = 0
    /\ ret = <<>>
    /\ calls = 0
    /\ prev = <<>>
    /\ sim = <<>>
    /\ ghost = BlankGhost

ApplyMask ==
    /\ pc = "mask"
    /\ probe' = [probe EXCEPT !.dij = DelayIndex(probe.t, probe.dly, probe.nh)]
    /\ pc' = "masked"
    /\ UNCHANGED <<err, args, nn, d, r, V, wrV, rng, tavg, bold_state, bold_out,
                   tavg_trace, bold_trace, win, t0, total_wins, bold_skip, ret,
                   calls, prev, sim, ghost>>

SpecMask == InitMask /\ [][ApplyMask]_vars

\* C2 (as claimed): for nh a power of two, t and the delay in 0..nh-1, the lookup
\* index lies in [0, nh) and equals (t - delay) mod nh; delay nh-1 at t = 0 gives
\* index 1 and delay 1 at t = 0 gives index nh-1.
C2_MaskAsClaimed ==
    pc = "masked" =>
        /\ probe.dij \in 0..(probe.nh - 1)
        /\ probe.dij = (probe.t - probe.dly) % probe.nh
        /\ (probe.t = 0 /\ probe.dly = probe.nh - 1) => probe.dij = 1
        /\ (probe.t = 0 /\ probe.dly = 1) => probe.dij = probe.nh - 1

\* C2 (amended): as claimed, the index of delay nh-1 at t = 0 being 1 when nh >= 2
\* (for nh = 1 the only slot is 0).
C2_Mask ==
    pc = "masked" =>
        /\ probe.dij \in 0..(probe.nh - 1)
        /\ probe.dij = (probe.t - probe.dly) % probe.nh
        /\ (probe.t = 0 /\ probe.dly = probe.nh - 1 /\ probe.nh >= 2) => probe.dij = 1
        /\ (probe.t = 0 /\ probe.dly = probe.nh - 1 /\ probe.nh = 1) => probe.dij = 0
        /\ (probe.t = 0 /\ probe.dly = 1) => probe.dij = probe.nh - 1

\* a lookup that wraps past slot 0: t = 0 with the longest delay of a window of 4
C2_Witness ==
    /\ pc = "masked"
    /\ probe.nh = 4 /\ probe.t = 0 /\ probe.dly = 3 /\ probe.dij = 1

(***************************************************************************)
(* Claims about run_loop.                                                  *)
(***************************************************************************)
\* what the arguments give for the outer loop's dimensions
WinsOf(a) == a.total_time \div (a.nh * a.dt)

SkipOf(a) == a.bold_tr \div (a.nh * a.dt)

Returned == pc = "done"

\* C5: two invocations of run_loop with identical arguments return traces that are
\* equal in every element of both arrays.
C5_Deterministic ==
    (Returned /\ calls >= 2) => (ret.tavg = prev.tavg /\ ret.bold = prev.bold)

\* the temporal-average traces of the two invocations alone
C5_TavgDeterministic ==
    (Returned /\ calls >= 2) => ret.tavg = prev.tavg

\* a step has just written slot t0 of the history
JustStepped == pc \in {"loop", "record"} /\ t0 >= 0

\* C6: every r the loop writes into the history is >= 0: a negative result of the
\* RK4-plus-noise update is replaced by 0, a non-negative one is kept, V is never
\* clamped; every r entry of the temporal-average buffer is >= 0 too.
C6_NonNegative ==
    pc \in {"draw", "enter", "loop", "record", "done"} =>
        /\ \A k \in DOMAIN r : \A i \in Nodes(nn) : r[k][i] >= 0
        /\ \A k \in DOMAIN tavg : \A i \in Nodes(nn) : tavg[k][0][i] >= 0
        /\ JustStepped =>
             \A i \in Nodes(nn) :
                /\ r[t0][i] = IF ghost.loop.raw[i] < 0 THEN 0 ELSE ghost.loop.raw[i]
                /\ V[t0][i] = ghost.loop.rawV[i]

\* a step whose update gave a negative r for one node and a negative V kept as it is
C6_Witness ==
    /\ JustStepped
    /\ \E i \in Nodes(nn) : ghost.loop.raw[i] < 0 /\ r[t0][i] = 0
    /\ \E i \in Nodes(nn) : ghost.loop.raw[i] > 0 /\ r[t0][i] = ghost.loop.raw[i]
    /\ \E i \in Nodes(nn) : V[t0][i] < 0

\* C7: entry k of the returned BOLD trace (0 <= k <= total_wins // bold_skip) holds
\* the BOLD output left by window k*bold_skip and was written exactly once.
C7_BoldEntries ==
    Returned =>
        \A k \in 0..(total_wins \div bold_skip) :
            /\ k \in DOMAIN ret.bold
            /\ Len(ghost.bold_writes[k]) = 1
            /\ ret.bold[k] = ghost.bold_hist[k * bold_skip + 1]

\* the entries of windows that were executed
C7_BoldEntriesOfExecutedWindows ==
    Returned =>
        \A k \in 0..(total_wins \div bold_skip) :
            k * bold_skip < total_wins =>
                /\ ghost.bold_writes[k] = <<k * bold_skip>>
                /\ ret.bold[k] = ghost.bold_hist[k * bold_skip + 1]

\* C8: the returned BOLD trace has exactly total_wins // bold_skip + 1 entries,
\* each of N values, for total_wins = floor(total_time / (nh*dt)) and
\* bold_skip = floor(bold_tr / (nh*dt)) >= 1.
C8_BoldCadence ==
    (Returned /\ SkipOf(args) >= 1) =>
        /\ DOMAIN ret.bold = 0..(WinsOf(args) \div SkipOf(args))
        /\ Cardinality(DOMAIN ret.bold) = WinsOf(args) \div SkipOf(args) + 1
        /\ \A k \in DOMAIN ret.bold : DOMAIN ret.bold[k] = Nodes(args.wshape[1])

\* a run of two windows sampled every two windows: two entries
C8_Witness ==
    /\ Returned
    /\ WinsOf(args) = 2 /\ SkipOf(args) = 2
    /\ Cardinality(DOMAIN ret.bold) = 2

\* C9: the returned temporal-average trace has exactly total_wins*nto entries, and
\* entry w*nto + k is slot k of the buffer as the loop left it at the end of window w.
C9_TavgLayout ==
    Returned =>
        /\ DOMAIN ret.tavg = 0..(WinsOf(args) * args.nto - 1)
        /\ \A w \in 0..(WinsOf(args) - 1) : \A k \in 0..(args.nto - 1) :
              ret.tavg[w * args.nto + k] = ghost.tavg_hist[w + 1][k]

\* two windows of two sub-windows whose four blocks differ from one another
C9_Witness ==
    /\ Returned
    /\ WinsOf(args) = 2 /\ args.nto = 2
    /\ ret.tavg[1] # ret.tavg[2]
    /\ ret.tavg[1] = ghost.tavg_hist[1][1]

\* the configuration errors of the claim, read off the arguments
BadShapes(a) == a.wshape # a.dshape \/ a.wshape[1] # a.wshape[2]

DelayTooLong(a) ==
    \E i \in DOMAIN a.delays : \E j \in DOMAIN a.delays[i] :
        a.delays[i][j] \div a.dt >= a.nh

\* C10: with weight and delay matrices of different shape, a non-square weight
\* matrix or a discretized delay >= nh, run_loop fails with an assertion error
\* before the first window: no noise drawn, loop never invoked, nothing returned.
C10_FailFast ==
    ((BadShapes(args) \/ DelayTooLong(args)) /\ pc # "call") =>
        /\ pc = "failed"
        /\ err = "AssertionError"
        /\ ghost.draws = 0
        /\ ghost.loop_calls = 0
        /\ ret = <<>>

\* a run refused for a delay of exactly nh steps between matrices of good shape
C10_Witness ==
    /\ pc = "failed" /\ err = "AssertionError"
    /\ ~BadShapes(args)
    /\ \E i \in DOMAIN d : \E j \in DOMAIN d[i] : d[i][j] = args.nh

\* a run refused for its shapes
C10_WitnessShapes ==
    /\ pc = "failed" /\ err = "AssertionError"
    /\ BadShapes(args)

C3_PartitionEquivalence ==
    pc = "cosim" =>
        /\ \A n \in 1..(sim.S * sim.kpart) :
              n <= sim.S * sim.kref =>
                 \A i \in Nodes(sim.c.nn) \ sim.P :
                    At(sim.part, sim.H, n)[i] = At(sim.ref, sim.H, n)[i]
        /\ \A n \in 1..(sim.S * (sim.kpart - 1)) :
              At(sim.part, sim.H, n) = At(sim.ref, sim.H, n)

\* three windows simulated by both instances, the non-proxy node's trajectory
\* not constant and the proxy's values of the second window received
C3_Witness ==
    /\ pc = "cosim"
    /\ sim.kpart = 3 /\ sim.kref = 3
    /\ \E i \in Nodes(sim.c.nn) \ sim.P :
          At(sim.part, sim.H, 3 * sim.S)[i] # At(sim.part, sim.H, 2 * sim.S)[i]
    /\ \E i \in sim.P :
          /\ At(sim.part, sim.H, 2 * sim.S)[i] = At(sim.ref, sim.H, 2 * sim.S)[i]
          /\ At(sim.part, sim.H, 2 * sim.S)[i] # Unknown

(***************************************************************************)
(* grid_search: the parameter sweep.  params is the keyword dict in call   *)
(* order, a sequence of <<key, value>> pairs.  joblib.Parallel hands the   *)
(* calls out in order to n_jobs workers, which run concurrently, and       *)
(* returns the results in the order of the calls.  sim holds the sweep:    *)
(* the shared weight and delay matrices, the generators in existence, the  *)
(* workers and the results collected so far.  sim.junk is the content of   *)
(* the memory np.empty hands out during the sweep.                         *)
(***************************************************************************)
MaxJobs == 2       \* n_jobs 1..MaxJobs
MaxSeq  == 2       \* a swept sequence of up to MaxSeq values

runvars == <<err, args, nn, d, r, V, wrV, rng, tavg, bold_state, bold_out,
             tavg_trace, bold_trace, win, t0, total_wins, bold_skip, calls, prev,
             probe, ghost>>

HasKey(params, key) == \E p \in 1..Len(params) : params[p][1] = key

\* params.pop(key, default): the value
Pop(params, key, default) ==
    IF HasKey(params, key)
    THEN params[CHOOSE p \in 1..Len(params) : params[p][1] = key][2]
    ELSE default

\* params.pop(key, default): the dict that is left
Popped(params, key) == SelectSeq(params, LAMBDA p : p[1] # key)

\* itertools.product(*vals): the last sequence varies fastest
RECURSIVE Product(_)
Product(vals) ==
    IF vals = <<>> THEN << <<>> >>
    ELSE LET rest == Product(Tail(vals))
             head == Head(vals)
         IN  [m \in 1..(Len(head) * Len(rest)) |->
                <<head[((m - 1) \div Len(rest)) + 1]>> \o rest[((m - 1) % Len(rest)) + 1]]

\* dict(list(zip(keys, combination)))
Zip(keys, combination) ==
    [key \in {keys[p] : p \in 1..Len(keys)} |->
        combination[CHOOSE p \in 1..Len(keys) : keys[p] = key]]

\* lines 164-167: args
SweepArgs(params) ==
    LET keys == [p \in 1..Len(params) |-> params[p][1]]
        vals == [p \in 1..Len(params) |-> params[p][2]]
        prod == Product(vals)
    IN  [m \in 1..Len(prod) |-> Zip(keys, prod[m])]

ShapeOf(matrix) ==
    <<Cardinality(DOMAIN matrix), Cardinality(DOMAIN matrix[0])>>

\* run_loop(**arg): the keyword arguments bound to run_loop's parameters
Bind(arg, key) ==
    [wshape |-> ShapeOf(arg["weights"]), dshape |-> ShapeOf(arg["delays"]),
     weights |-> arg["weights"], delays |-> arg["delays"],
     dt |-> IF "dt" \in DOMAIN arg THEN arg["dt"] ELSE 1,
     nh |-> arg["nh"], nto |-> arg["nto"],
     total_time |-> arg["total_time"], bold_tr |-> arg["bold_tr"],
     stream |-> key]

\* lines 126-149 of one call of run_loop, as the value of its locals
run_loop_setup(a, junk) ==
    LET n  == a.wshape[1]
        tw == TotalWins(a.total_time, a.nh * a.dt)
        bs == BoldSkip(a.bold_tr, a.nh * a.dt)
        la == [nh |-> a.nh, nto |-> a.nto, nn |-> n, dt |-> a.dt,
               w |-> a.weights, d |-> Discretize(a.delays, a.dt)]
    IN  [la |-> la,
         st |-> [r |-> InitialHistory(a.nh, n, a.dt, 0),
                 V |-> InitialHistory(a.nh, n, a.dt, 1),
                 tavg |-> ZeroTavg(la),
                 bold_state |-> [i \in Nodes(n) |-> <<0, 1, 1, 1>>],
                 bold_out |-> [i \in Nodes(n) |-> 0],
                 g |-> InitialLoopGhost(a.nh, n)],
         t |-> 0, total_wins |-> tw, bold_skip |-> bs,
         tavg_trace |-> [w \in 0..(tw - 1) |-> [k \in 0..(a.nto - 1) |->
                           [v \in 0..1 |-> [i \in Nodes(n) |-> junk]]]],
         bold_trace |-> [e \in 0..(BoldTraceLen(tw, bs) - 1) |->
                           [i \in Nodes(n) |-> junk]]]

\* lines 152-156 of one call: window s.t with the noise buffer wr
run_loop_window(s, wr) ==
    LET st == loop(s.st, s.la, wr)
    IN  [s EXCEPT !.st = st,
                  !.tavg_trace = StoreBlock(@, s.t, st.tavg),
                  !.bold_trace = IF s.t % s.bold_skip = 0
                                 THEN StoreBlock(@, s.t \div s.bold_skip, st.bold_out)
                                 ELSE @,
                  !.t = @ + 1]

\* line 157 of one call
run_loop_return(s) ==
    [tavg |-> Reshape(s.tavg_trace, s.total_wins, s.la.nto), bold |-> s.bold_trace]

\* the call run on its own: windows s.t.. with its generator at position pos
RECURSIVE RunAlone(_, _, _)
RunAlone(s, key, pos) ==
    IF s.t >= s.total_wins THEN run_loop_return(s)
    ELSE RunAlone(run_loop_window(s, Draw(key, pos, s.la.nh, s.la.nn)), key,
                  pos + 2 * s.la.nh * s.la.nn)

\* one generator for all the calls
GeneratorShared(m) == 0

\* line 140: the generator of call m is an object of its own
GeneratorOf(m) == m

\* results in the order the workers finish
PlaceInCompletionOrder(results, m, res) ==
    [results EXCEPT ![CHOOSE p \in 1..Len(results) :
                         /\ results[p] = <<>>
                         /\ \A q \in 1..(p - 1) : results[q] # <<>>] = res]

\* joblib.Parallel: the result of the m-th call is the m-th result
Place(results, m, res) == [results EXCEPT ![m] = res]

\* lines 160-167, and the workers of joblib.Parallel created
GridSearchCall ==
    /\ pc = "sweep"
    /\ LET n_jobs  == Pop(sim.params, "n_jobs", 1)
           verbose == Pop(Popped(sim.params, "n_jobs"), "verbose", 1)
           params  == Popped(Popped(sim.params, "n_jobs"), "verbose")
           as      == SweepArgs(params)
       IN  sim' = [sim EXCEPT !.n_jobs = n_jobs, !.verbose = verbose,
                              !.args = as,
                              !.results = [m \in 1..Len(as) |-> <<>>],
                              !.workers = [wk \in 1..n_jobs |-> <<>>],
                              !.gens = [g \in 0..Len(as) |-> 0]]
    /\ pc' = "parallel"
    /\ UNCHANGED ret
    /\ UNCHANGED runvars

\* the next call is handed to an idle worker (which one makes no difference, the
\* first is taken): run_loop(**args[m]) up to its window loop
Dispatch ==
    /\ pc = "parallel"
    /\ sim.next <= Len(sim.args)
    /\ \E wk \in DOMAIN sim.workers :
          /\ sim.workers[wk] = <<>>
          /\ \A other \in 1..(wk - 1) : sim.workers[other] # <<>>
          /\ LET m == sim.next
                 a == Bind(sim.args[m], sim.stream)
             IN  sim' = [sim EXCEPT
                           !.next = @ + 1,
                           !.gens[GeneratorOf(m)] = 0,
                           !.workers[wk] = [m |-> m,
                                            s |-> run_loop_setup(a, sim.junk)]]
    /\ UNCHANGED <<pc, ret>>
    /\ UNCHANGED runvars

\* a worker runs one window of its call
WorkerWindow ==
    /\ pc = "parallel"
    /\ \E wk \in DOMAIN sim.workers :
          /\ sim.workers[wk] # <<>>
          /\ sim.workers[wk].s.t < sim.workers[wk].s.total_wins
          /\ LET w   == sim.workers[wk]
                 gen == GeneratorOf(w.m)
                 wr  == Draw(sim.stream, sim.gens[gen], w.s.la.nh, w.s.la.nn)
             IN  sim' = [sim EXCEPT
                           !.gens[gen] = @ + 2 * w.s.la.nh * w.s.la.nn,
                           !.workers[wk].s = run_loop_window(w.s, wr)]
    /\ UNCHANGED <<pc, ret>>
    /\ UNCHANGED runvars

\* a worker's call returns and its result is collected
WorkerReturn ==
    /\ pc = "parallel"
    /\ \E wk \in DOMAIN sim.workers :
          /\ sim.workers[wk] # <<>>
          /\ sim.workers[wk].s.t >= sim.workers[wk].s.total_wins
          /\ LET w == sim.workers[wk]
             IN  sim' = [sim EXCEPT
                           !.results = Place(@, w.m,
                                             [value |-> run_loop_return(w.s),
                                              of |-> sim.args[w.m]]),
                           !.order = Append(@, w.m),
                           !.workers[wk] = <<>>]
    /\ UNCHANGED <<pc, ret>>
    /\ UNCHANGED runvars

\* lines 169-170: grid_search returns args and the results
GridSearchReturn ==
    /\ pc = "parallel"
    /\ \A m \in 1..Len(sim.results) : sim.results[m] # <<>>
    /\ ret' = [args |-> sim.args,
               results |-> [m \in 1..Len(sim.results) |-> sim.results[m].value]]
    /\ pc' = "swept"
    /\ UNCHANGED sim
    /\ UNCHANGED runvars

\* the horizons swept: one window, or one and two windows, of nh = 2 steps
Horizons == { <<2>>, <<2, 4>> }

\* the sweeps considered: one weight and one delay matrix, bold_tr over the first
\* multiples of the window, total_time over Horizons, n_jobs and verbose given or not
SweepParams ==
    { extra \o
      << <<"weights", <<Weights(<<2, 2>>)>> >>,
         <<"delays", <<DelayMatrix(<<2, 2>>, 1, 0, 1)>> >>,
         <<"nh", <<2>> >>,
         <<"nto", <<2>> >>,
         <<"bold_tr", [p \in 1..ln |-> 2 * p]>>,
         <<"total_time", tt>> >> :
      extra \in { <<>> } \cup { << <<"n_jobs", j>>, <<"verbose", 0>> >> : j \in 1..MaxJobs },
      ln \in 0..MaxSeq, tt \in Horizons }

InitSweep ==
    /\ \E params \in SweepParams : \E key \in Streams : \E junk \in Garbage :
          sim = [params |-> params, stream |-> key, junk |-> junk,
                 weights |-> Weights(<<2, 2>>),
                 delays |-> DelayMatrix(<<2, 2>>, 1, 0, 1),
                 n_jobs |-> 0, verbose |-> 0, args |-> <<>>, results |-> <<>>,
                 workers |-> <<>>, gens |-> <<>>, next |-> 1, order |-> <<>>]
    /\ pc = "sweep"
    /\ err = ""
    /\ args = <<>>
    /\ nn = 0
    /\ d = <<>>
    /\ r = <<>>
    /\ V = <<>>
    /\ wrV = <<>>
    /\ rng = 0
    /\ tavg = <<>>
    /\ bold_state = <<>>
    /\ bold_out = <<>>
    /\ tavg_trace = <<>>
    /\ bold_trace = <<>>
    /\ win = 0
    /\ t0 = -1
    /\ total_wins = 0
    /\ bold_skip = 0
    /\ ret = <<>>
    /\ calls = 0
    /\ prev = <<>>
    /\ probe = <<>>
    /\ ghost = BlankGhost

NextSweep ==
    \/ GridSearchCall
    \/ Dispatch
    \/ WorkerWindow
    \/ WorkerReturn
    \/ GridSearchReturn

SpecSweep == InitSweep /\ [][NextSweep]_vars

(***************************************************************************)
(* Claims about grid_search.                                               *)
(***************************************************************************)
Swept == pc = "swept"

\* the value sequence of a key of the call
ValuesOf(key) == Pop(sim.params, key, <<>>)

Range(seq) == {seq[p] : p \in 1..Len(seq)}

\* the combinations of the swept sequences, written out key by key
Combinations ==
    { [weights |-> wv, delays |-> dv, nh |-> nhv, bold_tr |-> bv, nto |-> ntov,
       total_time |-> tv] :
      wv \in Range(ValuesOf("weights")), dv \in Range(ValuesOf("delays")),
      nhv \in Range(ValuesOf("nh")), bv \in Range(ValuesOf("bold_tr")),
      ntov \in Range(ValuesOf("nto")), tv \in Range(ValuesOf("total_time")) }

\* C11: grid_search returns k parameter dicts and k results, k the product of the
\* sequence lengths; every combination of the Cartesian product appears exactly
\* once; results[m] is the result of the run_loop call made with args[m], whatever
\* n_jobs is and in whatever order the workers finish; no dict has the keys n_jobs
\* or verbose.
C11_SweepFanOut ==
    Swept =>
        LET k == Len(ValuesOf("weights")) * Len(ValuesOf("delays"))
                 * Len(ValuesOf("nh")) * Len(ValuesOf("bold_tr"))
                 * Len(ValuesOf("nto")) * Len(ValuesOf("total_time"))
        IN  /\ Len(ret.args) = k
            /\ Len(ret.results) = k
            /\ \A c \in Combinations :
                  Cardinality({m \in 1..k : ret.args[m] = c}) = 1
            /\ \A m \in 1..k :
                  /\ ret.args[m] \in Combinations
                  /\ sim.results[m].of = ret.args[m]
                  /\ ret.results[m] = sim.results[m].value
                  /\ "n_jobs" \notin DOMAIN ret.args[m]
                  /\ "verbose" \notin DOMAIN ret.args[m]

\* a sweep of four combinations over two workers, the second call finishing first
C11_Witness ==
    /\ Swept
    /\ sim.n_jobs = 2
    /\ Len(ret.args) = 4
    /\ sim.order[1] = 2
    /\ ret.results[1] # ret.results[2]

WindowDone == pc = "record"

Divides(a, b) == a > 0 /\ b % a = 0

\* C13: the hemodynamic state of every node is updated nto times per window of nh
\* steps (once per nh/nto steps), not once per step.
C13_HemodynamicCadence ==
    (WindowDone /\ Divides(args.nto, args.nh)) =>
        \A i \in Nodes(nn) : ghost.loop.fmri_calls[i] = (win + 1) * args.nto

\* what the loop does: one update per node at every step
C13_HemodynamicEveryStep ==
    StepDone => \A i \in Nodes(nn) : ghost.loop.fmri_calls[i] = ghost.loop.steps

\* the sum over the steps in ss of variable v of node i along the window's
\* trajectory (traj[i] lists the states of node i the window's steps have written)
RECURSIVE SumOver(_, _, _, _)
SumOver(ss, traj, v, i) ==
    IF ss = <<>> THEN 0
    ELSE traj[i][Head(ss) + 1][v + 1] + SumOver(Tail(ss), traj, v, i)

\* the k-th block of b consecutive steps
Block(k, b) == [p \in 1..b |-> k * b + p - 1]

\* C14: at the end of every window, slot k of the temporal-average buffer holds, for
\* every node, the mean of (r, V) over the k-th block of nh/nto consecutive steps of
\* the window in processing order (the first processed step is step 0 of block 0).
C14_ConsecutiveBlocks ==
    (WindowDone /\ Divides(args.nto, args.nh)) =>
        \A k \in 0..(args.nto - 1) : \A v \in 0..1 : \A i \in Nodes(nn) :
            tavg[k][v][i] = o_nh(args.nh, args.nto)
                            * SumOver(Block(k, args.nh \div args.nto), ghost.loop.traj, v, i)

\* the same for one slot only (nto = 1), where every step is in the one block
C14_SingleBlock ==
    (WindowDone /\ args.nto = 1) =>
        \A v \in 0..1 : \A i \in Nodes(nn) :
            tavg[0][v][i] = o_nh(args.nh, args.nto)
                            * SumOver(Block(0, args.nh), ghost.loop.traj, v, i)

\* number of occurrences of step s among the contributions of all slots
Occurrences(s) ==
    Cardinality({<<k, p>> \in (DOMAIN ghost.loop.contrib) \X (1..args.nh) :
                    p <= Len(ghost.loop.contrib[k]) /\ ghost.loop.contrib[k][p] = s})

\* C15: when nto divides nh, at the end of a window every one of the nh steps has
\* contributed to exactly one slot, every slot has received exactly nh/nto
\* contributions per node and variable, each weighted nto/nh (weights summing to 1),
\* and the slot holds those contributions only: nothing of an earlier window.
C15_RunningMeanWeights ==
    (WindowDone /\ Divides(args.nto, args.nh)) =>
        /\ \A s \in 0..(args.nh - 1) : Occurrences(s) = 1
        /\ \A k \in 0..(args.nto - 1) :
              /\ Len(ghost.loop.contrib[k]) = args.nh \div args.nto
              /\ Len(ghost.loop.contrib[k]) * o_nh(args.nh, args.nto) = args.nh
              /\ \A v \in 0..1 : \A i \in Nodes(nn) :
                    tavg[k][v][i] = o_nh(args.nh, args.nto)
                                    * SumOver(ghost.loop.contrib[k], ghost.loop.traj, v, i)

\* the end of a second window of two slots whose averages differ from the first's
C15_Witness ==
    /\ WindowDone
    /\ win = 1 /\ args.nto = 2 /\ args.nh = 2
    /\ tavg # ghost.tavg_hist[1]
    /\ tavg[0] # tavg[1]

\* C16: the steps write history slots 0, 1, .., nh-1 in that order in every window
\* and each step takes its current state from the slot written by the step before
\* it; the first step of a window reads slot nh-1, the last written by the window
\* before (or the initial condition): all windows form one unbroken step sequence.
C16_Continuity ==
    StepDone =>
        /\ ghost.loop.wrote = (ghost.loop.steps - 1) % args.nh
        /\ ghost.loop.read = (ghost.loop.steps - 2) % args.nh
        /\ \A i \in Nodes(nn) : ghost.loop.now[i] = ghost.loop.steps - 1

\* the first step of the second window, its current state read from slot nh-1
C16_Witness ==
    /\ pc = "loop" /\ win = 1 /\ t0 = 0
    /\ args.nh >= 2
    /\ ghost.loop.read = args.nh - 1
    /\ ghost.loop.steps = args.nh + 1

\* the entries of the noise buffer: (variable, slot, node)
NoiseEntries == (0..1) \X (0..(args.nh - 1)) \X Nodes(nn)

\* C17: one noise buffer of shape (2, nh, N) is drawn per window, before the loop is
\* invoked for it; it is the window's own part of the stream (no entry of an earlier
\* draw), and within the window every entry is consumed by exactly one state update.
C17_NoiseConsumption ==
    /\ pc \in {"draw", "done"} => (ghost.draws = win /\ ghost.loop_calls = win)
    /\ pc = "enter" => (ghost.draws = win + 1 /\ ghost.loop_calls = win)
    /\ pc \in {"loop", "record"} => (ghost.draws = win + 1 /\ ghost.loop_calls = win + 1)
    /\ pc \in {"enter", "loop", "record"} =>
          /\ DOMAIN wrV = 0..1
          /\ \A v \in 0..1 :
                /\ DOMAIN wrV[v] = 0..(args.nh - 1)
                /\ \A t \in 0..(args.nh - 1) :
                      /\ DOMAIN wrV[v][t] = Nodes(nn)
                      /\ \A i \in Nodes(nn) :
                            wrV[v][t][i] =
                               standard_normal(args.stream,
                                               win * 2 * args.nh * nn
                                               + (v * args.nh + t) * nn + i)
    /\ pc \in {"loop", "record"} =>
          /\ Len(ghost.loop.used) = 2 * nn * (t0 + 1)
          /\ Cardinality({ghost.loop.used[p] : p \in 1..Len(ghost.loop.used)})
                = Len(ghost.loop.used)
          /\ \A p \in 1..Len(ghost.loop.used) : ghost.loop.used[p] \in NoiseEntries
    /\ WindowDone =>
          {ghost.loop.used[p] : p \in 1..Len(ghost.loop.used)} = NoiseEntries

\* the end of a second window of two steps and two nodes, its buffer not the first's
C17_Witness ==
    /\ WindowDone
    /\ win = 1 /\ args.nh = 2 /\ nn = 2
    /\ wrV # Draw(args.stream, 0, args.nh, nn)
    /\ Len(ghost.loop.used) = 8

\* C18: once the block of window w (and, when w is a multiple of bold_skip, its BOLD
\* entry) is stored in the trace, no later window changes it, although the
\* temporal-average and BOLD buffers are reused and overwritten by later windows.
C18_TracesKept ==
    pc \in {"draw", "enter", "loop", "record", "done"} =>
        \A w \in 0..(win - 1) :
            /\ tavg_trace[w] = ghost.tavg_hist[w + 1]
            /\ w % bold_skip = 0 => bold_trace[w \div bold_skip] = ghost.bold_hist[w + 1]

\* the end of a second window: both buffers hold other values than the first
\* window's, whose stored block and entry are still there
C18_Witness ==
    /\ WindowDone
    /\ win = 1
    /\ tavg # tavg_trace[0]
    /\ bold_out # bold_trace[0]
    /\ tavg_trace[0] = ghost.tavg_hist[1]
    /\ bold_trace[0] = ghost.bold_hist[1]

\* C20: for every pair (nh, nto) that run_loop accepts, nh // nto is not zero and at
\* every step the slot index used for accumulation addresses one of the nto slots.
C20_TavgIndexInBounds ==
    pc = "loop" =>
        /\ args.nh \div args.nto # 0
        /\ TavgIndex(t0, args.nh, args.nto) \in 0..(args.nto - 1)

\* the same when nto divides nh
C20_TavgIndexInBoundsDividing ==
    (pc = "loop" /\ Divides(args.nto, args.nh)) =>
        /\ args.nh \div args.nto # 0
        /\ TavgIndex(t0, args.nh, args.nto) \in 0..(args.nto - 1)

(***************************************************************************)
(* fmri at the hemodynamic steady state, at the resolution of its float    *)
(* arithmetic.  A hemodynamic state is held as its deviation from          *)
(* (0, 1, 1, 1) in units of 2^-36; constants are held in units of 1/1024.  *)
(* The literals 1.0 make the right-hand sides and the updated s, f, v, q   *)
(* float64 values, which this resolution holds without rounding; a store   *)
(* into the float32 state array rounds to the nearest float32.  Terms in   *)
(* the deviations of f and v are of first order; they vanish at f = v = 1. *)
(***************************************************************************)
MaxDt          == 4        \* dt 1..MaxDt
MaxSteadyCalls == 30       \* successive calls of fmri
MaxDev         == 65536    \* largest deviation held, in units of 2^-36

\* float32(0.4) * float32(1 / 0.4) - 1 = 13421773/2^25 * 5/2 - 1 = 2^-26
E0_RECIP_E0_EXCESS == 1024

\* d/df of f * (1 - pow(1 - E0, 1 / f)) * RECIP_E0 at f = 1, in 1/1024
OXYGEN_SLOPE_1024 == 239

RECIP_TAU_S_1024 == 1575
RECIP_TAU_F_1024 == 2498
RECIP_TAU_O_1024 == 1045
RECIP_ALPHA_1024 == 3200
K1_1024          == 2839
K2_1024          == 205
K3_1024          == 512

\* spacing of float32 just above and just below 1.0, in units of 2^-36
ULP_ABOVE_ONE == 8192
ULP_BELOW_ONE == 4096

Scaled(c, x) == (c * x) \div 1024

Cap(x) == IF x > MaxDev THEN MaxDev ELSE IF x < -MaxDev THEN -MaxDev ELSE x

\* x rounded to the nearest multiple of ulp, ties to the even multiple
RoundTo(x, ulp) ==
    LET n   == x \div ulp
        rem == x % ulp
    IN  IF 2 * rem < ulp THEN n * ulp
        ELSE IF 2 * rem > ulp THEN (n + 1) * ulp
        ELSE IF n % 2 = 0 THEN n * ulp ELSE (n + 1) * ulp

\* node_bold[k] = value, for a value 1 + dev: the nearest float32
StoreNearOne(dev) ==
    Cap(RoundTo(dev, IF dev >= 0 THEN ULP_ABOVE_ONE ELSE ULP_BELOW_ONE))

\* lines 28-40: the updated s, f, v, q before they are stored
fmri_locals(node_bold, x, dt) ==
    LET s  == node_bold[1]
        f  == node_bold[2]
        v  == node_bold[3]
        q  == node_bold[4]
        ds == x - Scaled(RECIP_TAU_S_1024, s) - Scaled(RECIP_TAU_F_1024, f)
        df == s
        dv == Scaled(RECIP_TAU_O_1024, f - Scaled(RECIP_ALPHA_1024, v))
        dq == Scaled(RECIP_TAU_O_1024,
                     (E0_RECIP_E0_EXCESS + Scaled(OXYGEN_SLOPE_1024, f))
                     - (Scaled(RECIP_ALPHA_1024 - 1024, v) + q))
    IN  <<s + dt * ds, f + dt * df, v + dt * dv, q + dt * dq>>

\* lines 41-44: the state array after the call
fmri_stored(node_bold, x, dt) ==
    LET l == fmri_locals(node_bold, x, dt)
    IN  <<Cap(l[1]), StoreNearOne(l[2]), StoreNearOne(l[3]), StoreNearOne(l[4])>>

\* line 45: the returned value, computed from the updated q and v as they are
fmri_returned(node_bold, x, dt) ==
    LET l == fmri_locals(node_bold, x, dt)
        v == l[3]
        q == l[4]
    IN  V0 * (Scaled(K1_1024, -q) + Scaled(K2_1024, -(q - v)) + Scaled(K3_1024, -v))

InitSteady ==
    /\ \E dt \in 1..MaxDt :
          probe = [dt |-> dt, calls |-> 0, node_bold |-> <<0, 0, 0, 0>>, out |-> 0]
    /\ pc = "steady"
    /\ err = ""
    /\ args = <<>>
    /\ nn = 0
    /\ d = <<>>
    /\ r = <<>>
    /\ V = <<>>
    /\ wrV = <<>>
    /\ rng = 0
    /\ tavg = <<>>
    /\ bold_state = <<>>
    /\ bold_out = <<>>
    /\ tavg_trace = <<>>
    /\ bold_trace = <<>>
    /\ win = 0
    /\ t0 = -1
    /\ total_wins = 0
    /\ bold_skip = 0
    /\ ret = <<>>
    /\ calls = 0
    /\ prev = <<>>
    /\ sim = <<>>
    /\ ghost = BlankGhost

\* one call of fmri with zero neural drive
FmriCall ==
    /\ pc = "steady"
    /\ probe.calls < MaxSteadyCalls
    /\ probe' = [probe EXCEPT
                   !.calls = @ + 1,
                   !.node_bold = fmri_stored(@, 0, probe.dt),
                   !.out = fmri_returned(probe.node_bold, 0, probe.dt)]
    /\ UNCHANGED <<pc, err, args, nn, d, r, V, wrV, rng, tavg, bold_state, bold_out,
                   tavg_trace, bold_trace, win, t0, total_wins, bold_skip, ret,
                   calls, prev, sim, ghost>>

SpecSteady == InitSteady /\ [][FmriCall]_vars

\* C19: started from the driver's initial hemodynamic state (0, 1, 1, 1), every call
\* of fmri with zero drive leaves the state at (0, 1, 1, 1) and returns 0 (so state
\* and BOLD output are at their limits from the first call on).
C19_SteadyState ==
    (pc = "steady" /\ probe.calls >= 1) =>
        /\ probe.node_bold = <<0, 0, 0, 0>>
        /\ probe.out = 0

\* for dt up to 3 the stored state stays at (0, 1, 1, 1); the returned value is the
\* same small negative number at every call
C19_StateKept ==
    (pc = "steady" /\ probe.calls >= 1 /\ probe.dt <= 3) =>
        /\ probe.node_bold = <<0, 0, 0, 0>>
        /\ probe.out < 0
        /\ probe.out > -MaxDev

(***************************************************************************)
(* Claims about what the setup checks let through to the inner loop.       *)
(***************************************************************************)
InLoop == pc = "loop"

\* C21: for every nh and delay matrix that pass run_loop's assertions (the run has
\* reached the inner loop), the masked index (t - d[i,j] + nh) & (nh-1) equals
\* (t - d[i,j]) mod nh for all t in 0..nh-1 and all i, j.
C21_AcceptedLengthsMaskSafely ==
    InLoop =>
        \A t \in 0..(args.nh - 1) : \A i \in Nodes(nn) : \A j \in Nodes(nn) :
            DelayIndex(t, d[i][j], args.nh) = (t - d[i][j]) % args.nh

\* the same for the accepted history lengths that are powers of two
C21_PowersOfTwoMaskSafely ==
    (InLoop /\ IsPow2(args.nh)) =>
        \A t \in 0..(args.nh - 1) : \A i \in Nodes(nn) : \A j \in Nodes(nn) :
            DelayIndex(t, d[i][j], args.nh) = (t - d[i][j]) % args.nh

\* the first step of the run has just been taken
FirstStepDone == pc \in {"loop", "record"} /\ win = 0 /\ t0 = 0

\* C22: the slot that the first step of the run uses as its current state is the
\* one for which the initial-condition function received time offset 0, and a slot
\* it reads as the state dly steps earlier (dly in 1..nh-1) is the one for which the
\* function received time offset -dly*dt.
C22_InitialTimeLabels ==
    (FirstStepDone /\ IsPow2(args.nh)) =>
        /\ ghost.ictime[ghost.loop.read] = 0
        /\ \A dly \in 1..(args.nh - 1) :
              ghost.ictime[DelayIndex(ghost.loop.read, dly, args.nh)] = -(dly * args.dt)

\* what the slots are labelled with: the slot read as the state dly steps earlier
\* (dly = 0 the current state) received time offset -(nh-1-dly)*dt
C22_LabelsInSlotOrder ==
    (FirstStepDone /\ IsPow2(args.nh)) =>
        \A dly \in 0..(args.nh - 1) :
            ghost.ictime[DelayIndex(ghost.loop.read, dly, args.nh)]
               = -((args.nh - 1 - dly) * args.dt)

====
